---- MODULE Spec2Model ----
(***************************************************************************)
(* A model of the type-changing vector of the AnyVec repository:           *)
(* UnionVec (src/src/collections/unionvec.rs) and SelectVec                *)
(* (src/src/selectvec.rs).  The vector is a Vec of untagged unions plus a  *)
(* phantom type tag; the model keeps the tag as a run-time variable, the   *)
(* buffer as a sequence of cells, and with every cell the value its bits   *)
(* are (who owns it, how often a destructor ran on it).                    *)
(***************************************************************************)
EXTENDS Integers, Sequences, FiniteSets, TLC

\* Largest capacity of the backing Vec that the model explores.
MaxCap == 3
\* Payloads of the element values are 0..MaxVal.
MaxVal == 2
\* A destructor is run on one cell at most MaxDtor times.
MaxDtor == 2

VARIABLES
    kind,      \* "UnionVec" or "SelectVec": which of the two containers this is
    U,         \* the type universe: the tuple of types of the union
    tag,       \* T, the current type of the vector (PhantomData<T>)
    ptr,       \* data.as_mut_ptr(): the address of the buffer, 0 when dangling
    cap,       \* data.capacity()
    len,       \* data.len()
    cells,     \* the buffer: cells[k] tells what the bits of cell k-1 are
    heap,      \* the allocator's view of the buffer: [addr, size, align]
    pc,        \* position: "idle", inside a loop, or how the vector ended
    i,         \* loop index of the running map / filter_map / handoff
    savedLen,  \* the local `len` read before set_len(0)
    nones,     \* filter_map's count of skipped elements
    f,         \* the closure passed to the running operation
    sel,       \* the selector S of the running operation (index into U), 0 = none
    out,       \* the Vec returned by a buffer handoff
    faults,    \* misuses of a cell seen so far (read uninitialized, wrong type, moved out)
    hist,      \* the last operation called and the vector as it was when it was called
    wtag,      \* the tag of the SelectSlice borrowed from the vector, "none" without one
    drain,     \* the Drain iterator borrowed from the vector, NoDrain without one
    iter       \* the Iter or IntoIter made from the vector, NoIter without one

vars == <<kind, U, tag, ptr, cap, len, cells, heap, pc, i, savedLen, nones, f, sel, out,
          faults, hist, wtag, drain, iter>>

----------------------------------------------------------------------------
(* Types, their layout, and the union of a universe.                       *)

Types == {"str", "u64", "String", "u32", "u16", "ResultU32", "unit"}

\* mem::size_of::<T>() on the 64-bit target the tests' capacities are written for.
TypeSize(t) ==
    CASE t = "str" -> 16
      [] t = "u64" -> 8
      [] t = "String" -> 24
      [] t = "u32" -> 4
      [] t = "u16" -> 2
      [] t = "ResultU32" -> 8
      [] t = "unit" -> 0

\* mem::align_of::<T>().
TypeAlign(t) ==
    CASE t = "str" -> 8
      [] t = "u64" -> 8
      [] t = "String" -> 8
      [] t = "u32" -> 4
      [] t = "u16" -> 2
      [] t = "ResultU32" -> 4
      [] t = "unit" -> 1

MaxOf(S) == CHOOSE m \in S : \A x \in S : x <= m

\* mem::align_of::<U::Union>(): a union is aligned as its most aligned field.
CellAlign(u) == MaxOf({TypeAlign(u[k]) : k \in DOMAIN u})

\* mem::size_of::<U::Union>(): the largest field, rounded up to the alignment.
CellSize(u) ==
    LET m == MaxOf({TypeSize(u[k]) : k \in DOMAIN u})
        a == CellAlign(u)
    IN  ((m + a - 1) \div a) * a

\* TypeUnion::contains::<T>().
Contains(u, t) == \E k \in DOMAIN u : u[k] = t

\* <U as Select<S>>::Output.
Output(u, s) == u[s]

\* The instantiations UnionVec::<T, U> / SelectVec::<T, D> explored.  Neither
\* new() nor with_capacity() bounds T by the universe, so T may lie outside it.
Instantiations ==
    { [U |-> <<"str", "u64">>, T |-> "str"],
      [U |-> <<"String", "str", "u32">>, T |-> "String"],
      [U |-> <<"u16", "ResultU32">>, T |-> "u64"] }

Kinds == {"UnionVec", "SelectVec"}

Vals == 0..MaxVal

----------------------------------------------------------------------------
(* Cells.  A cell carries no type information; the model records what its  *)
(* bits are: a value of type ty with payload v, who owns that value now    *)
(* (fate), and how often a destructor ran on it (dtor).                    *)

Uninit == [ty |-> "uninit", v |-> 0, fate |-> "none", dtor |-> 0]

\* ptr::write of a value of type t into a cell: SelectHandle::from_unchecked.
NewVal(t, v) == [ty |-> t, v |-> v, fate |-> "vec", dtor |-> 0]

\* ptr::read of a cell: the bits stay, the value now belongs to `who`.
Take(c, who) == [c EXCEPT !.fate = who]

\* The value in the cell is dropped as its type: the destructor runs.
Destroy(c) == [c EXCEPT !.fate = "dropped", !.dtor = @ + 1]

\* The value in the cell is abandoned: nobody owns it, no destructor runs.
Leak(c) == IF c.fate = "vec" THEN [c EXCEPT !.fate = "leaked"] ELSE c

\* What reading a cell as type t does wrong.
ReadFaults(c, t) ==
    IF c.ty = "uninit" THEN {"uninit"}
    ELSE (IF c.ty # t THEN {"wrong_type"} ELSE {})
         \cup (IF c.fate # "vec" THEN {"moved"} ELSE {})

\* The payloads reading a cell as type t can give: the value's own payload,
\* or any bits at all when the cell does not hold a t.
ReadVals(c, t) == IF c.ty = t THEN {c.v} ELSE Vals

\* Bits that no longer belong to any value are only bits: the cells past the
\* length whose value has been moved out are indistinguishable from
\* uninitialized ones for every later operation.
Settle(cs, n) ==
    [k \in DOMAIN cs |-> IF k > n /\ cs[k].fate # "vec" THEN Uninit ELSE cs[k]]

LeakAll(cs) == [k \in DOMAIN cs |-> Leak(cs[k])]

----------------------------------------------------------------------------
(* The allocator.                                                          *)

NoBlock == [addr |-> 0, size |-> 0, align |-> 0]

\* An address other than p: where a new or moved block lives.
Fresh(p) == IF p = 1 THEN 2 ELSE 1

\* Global.realloc: the block is resized in place, or a new block is handed
\* out and the old one released; which of the two is the allocator's choice.
Realloc(h, newSize, moved) ==
    [addr |-> IF moved THEN Fresh(h.addr) ELSE h.addr, size |-> newSize, align |-> h.align]

\* Vec's amortized growth on push when len = cap.
GrowCap(c) == IF 2 * c > c + 1 THEN 2 * c ELSE c + 1

----------------------------------------------------------------------------
(* The closures handed to map / filter_map / into_vec_map.                 *)

\* map closures: "inc" is total, "unwrap" panics on payload 0 (as
\* |s| s.parse().unwrap() does on a string that is no number).
MapFns == {"inc", "unwrap"}

\* filter_map closures: "ok" declines payload 0 (as |s| s.parse().ok()),
\* "strict" declines 0 and panics on MaxVal.
FilterFns == {"ok", "strict"}

Panics(fn, x) ==
    \/ fn = "unwrap" /\ x = 0
    \/ fn = "strict" /\ x = MaxVal

Declines(fn, x) ==
    \/ fn = "ok" /\ x = 0
    \/ fn = "strict" /\ x = 0

Apply(fn, x) ==
    CASE fn = "inc" -> (x + 1) % (MaxVal + 1)
      [] fn = "unwrap" -> x - 1
      [] fn = "ok" -> x - 1
      [] fn = "strict" -> x

----------------------------------------------------------------------------
(* History: what the last operation was called on.                         *)

NoOut == [ptr |-> 0, len |-> 0, cap |-> 0, ty |-> "none", elems |-> <<>>]

\* No Drain: vec::Drain's tail_start and tail_len, the two ends of its
\* slice iterator, and the values it has yielded so far with their indices.
NoDrain == [start |-> 0, front |-> 0, back |-> 0, tail_start |-> 0, tail_len |-> 0,
            yielded |-> <<>>]

\* No iterator: the two ends of a slice::Iter or vec::IntoIter, what it has
\* yielded so far, and whether it has answered None.
NoIter == [front |-> 0, back |-> 0, yielded |-> <<>>, none |-> FALSE]

\* No operation came before.
NoVia == [op |-> "none", tag |-> "none", f |-> "none", sel |-> 0, vs |-> <<>>]

\* The operation whose result the vector is, when the vector is the untouched
\* result of a map: what that map was called on and with.
Via ==
    IF hist.op = "map" /\ pc = "idle"
    THEN [op |-> "map", tag |-> hist.tag, f |-> hist.f, sel |-> hist.sel, vs |-> hist.vs]
    ELSE NoVia

Snap(op, fn, s) ==
    [op |-> op, tag |-> tag, ptr |-> ptr, cap |-> cap, len |-> len,
     vs |-> SubSeq(cells, 1, len), f |-> fn, sel |-> s, ret |-> Uninit, via |-> NoVia,
     drain |-> NoDrain]

----------------------------------------------------------------------------
(* Construction: new() and with_capacity(n).                               *)

InitOf(insts) ==
    /\ kind \in Kinds
    /\ \E inst \in insts, n \in 0..MaxCap :
          /\ U = inst.U
          /\ tag = inst.T
          /\ cap = n
          /\ ptr = IF n = 0 THEN 0 ELSE 1
          /\ heap = IF n = 0 THEN NoBlock
                    ELSE [addr |-> 1, size |-> n * CellSize(inst.U),
                          align |-> CellAlign(inst.U)]
          /\ cells = [k \in 1..n |-> Uninit]
          /\ hist = [op |-> "new", tag |-> inst.T, ptr |-> 0, cap |-> 0, len |-> 0,
                     vs |-> <<>>, f |-> "none", sel |-> 0, ret |-> Uninit,
                     via |-> NoVia, drain |-> NoDrain]
    /\ len = 0
    /\ pc = "idle"
    /\ i = 0
    /\ savedLen = 0
    /\ nones = 0
    /\ f = "none"
    /\ sel = 0
    /\ out = NoOut
    /\ faults = {}
    /\ wtag = "none"
    /\ drain = NoDrain
    /\ iter = NoIter

InitVec == InitOf(Instantiations)

----------------------------------------------------------------------------
(* push, pop, change_to, and the end of the vector's scope.                *)

\* push(item): SelectHandle::from(item).into_inner() is appended to data.
Push(v) ==
    /\ pc = "idle"
    /\ LET grow == (len = cap)
           newCap == IF grow THEN GrowCap(cap) ELSE cap
           cs == Settle(cells, len)
       IN  /\ newCap <= MaxCap
           /\ \E moved \in (IF grow /\ cap > 0 THEN BOOLEAN ELSE {FALSE}) :
                 /\ heap' = IF ~grow THEN heap
                            ELSE IF cap = 0
                                 THEN [addr |-> 1, size |-> newCap * CellSize(U),
                                       align |-> CellAlign(U)]
                                 ELSE Realloc(heap, newCap * CellSize(U), moved)
                 /\ ptr' = heap'.addr
           /\ cap' = newCap
           /\ cells' = [k \in 1..newCap |->
                           IF k = len + 1 THEN NewVal(tag, v)
                           ELSE IF k <= cap THEN cs[k] ELSE Uninit]
           /\ len' = len + 1
    /\ hist' = Snap("push", "none", 0)
    /\ UNCHANGED <<kind, U, iter, drain, wtag, tag, pc, i, savedLen, nones, f, sel, out, faults>>

\* What dropping the vector does to an occupied cell.  SelectVec implements
\* Drop as `for _ in self.drain(..) {}`: the cell is read as T and the T is
\* dropped.  UnionVec implements no Drop: its Vec of unions is released
\* without a destructor running.
DropCell(k, c) == IF k = "SelectVec" THEN Destroy(c) ELSE Leak(c)

\* What is left of the vector when a panic unwinds through the frame that
\* owns it: its destructor runs on the cells it still counts.
Abandon(k, cs, n, t) ==
    [cells |-> [j \in DOMAIN cs |-> IF j <= n THEN DropCell(k, cs[j]) ELSE cs[j]],
     faults |-> IF k = "SelectVec"
                THEN UNION {ReadFaults(cs[j], t) : j \in 1..n} ELSE {}]

\* How TypeSelect::cast::<t>() of a union of universe u can end.  It begins
\* with debug_assert!(U::contains::<T>()), which panics in a build with debug
\* assertions when t is no type of u.  It then writes the whole union, with
\* ptr::write, into a local of type t: when t is smaller than the union the
\* write runs past the local, which is undefined behaviour, so the build may
\* give the value or anything else.
CastOutcomes(u, t) ==
    {"value"}
        \cup (IF Contains(u, t) THEN {} ELSE {"panicked"})
        \cup (IF TypeSize(t) < CellSize(u) THEN {"undefined"} ELSE {})

\* pop(): data.pop().map(|union| union.cast::<T>()).  When cast panics the
\* popped union is lost and the vector dies with the caller's frame.
Pop ==
    /\ pc = "idle"
    /\ IF len = 0
       THEN /\ hist' = Snap("pop", "none", 0)
            /\ cells' = Settle(cells, len)
            /\ UNCHANGED <<len, faults, heap, pc>>
       ELSE \E o \in CastOutcomes(U, tag) :
               IF o = "panicked"
               THEN LET cs == [Settle(cells, len) EXCEPT ![len] = Leak(@)]
                        rest == Abandon(kind, cs, len - 1, tag)
                    IN  /\ cells' = rest.cells
                        /\ faults' = faults \cup rest.faults
                        /\ len' = 0
                        /\ heap' = NoBlock
                        /\ pc' = "panicked"
                        /\ hist' = Snap("pop", "none", 0)
               ELSE /\ len' = len - 1
                    /\ cells' = [Settle(cells, len) EXCEPT ![len] = Take(@, "caller")]
                    /\ faults' = faults \cup ReadFaults(cells[len], tag)
                    /\ pc' = IF o = "undefined" THEN "undefined" ELSE "idle"
                    /\ \E x \in (IF o = "undefined" THEN Vals ELSE ReadVals(cells[len], tag)) :
                          hist' = [Snap("pop", "none", 0) EXCEPT !.ret = NewVal(tag, x)]
                    /\ UNCHANGED heap
    /\ UNCHANGED <<kind, U, iter, drain, wtag, tag, ptr, cap, i, savedLen, nones, f, sel, out>>

\* What data.clear() does to a cell of the Vec<U::Union>: a union has no drop
\* glue, so clearing runs no destructor and the value is abandoned.
ClearCell(c) == Leak(c)

\* ClearedLen with the clear forgotten.
ClearedLenBug(n) == n

\* The length of the Vec after data.clear().
ClearedLen(n) == 0

\* change_to::<S>() / change_type::<S>(): data.clear(), then the same Vec is
\* retagged.
ChangeTo(s) ==
    /\ pc = "idle"
    /\ len' = ClearedLen(len)
    /\ cells' = [k \in DOMAIN cells |->
                    IF k <= len THEN ClearCell(cells[k]) ELSE Settle(cells, len)[k]]
    /\ tag' = Output(U, s)
    /\ hist' = Snap("change_to", "none", s)
    /\ UNCHANGED <<kind, U, iter, drain, wtag, ptr, cap, heap, pc, i, savedLen, nones, f, sel, out, faults>>

\* The vector goes out of scope.
Drop ==
    /\ pc = "idle"
    /\ cells' = Abandon(kind, Settle(cells, len), len, tag).cells
    /\ faults' = faults \cup Abandon(kind, Settle(cells, len), len, tag).faults
    /\ len' = 0
    /\ heap' = NoBlock
    /\ pc' = "dropped"
    /\ hist' = Snap("drop", "none", 0)
    /\ UNCHANGED <<kind, U, iter, drain, wtag, tag, ptr, cap, i, savedLen, nones, f, sel, out>>

----------------------------------------------------------------------------
(* map and filter_map: the in-place rewriting loops.                       *)

\* LoopLen with the set_len(0) forgotten.
LoopLenBug(n) == n

\* data.set_len(0) before the loop: the length the Vec has while it runs.
LoopLen(n) == 0

\* MapWriteIndex with the offset forgotten: every result goes to cell 0.
MapWriteIndexBug(k) == 0

\* The cell map writes f's result for cell k to: item_ptr = ptr.offset(i).
MapWriteIndex(k) == k

\* FilterWriteIndex without the compaction: the result stays in cell k.
FilterWriteIndexBug(k, n) == k

\* The cell filter_map writes the result for cell k to, n elements having
\* been skipped so far: write_ptr = ptr.offset(i - nones).
FilterWriteIndex(k, n) == k - n

\* data.set_len(len) after map's loop.
MapRestoredLen(n) == n

\* FilterRestoredLen with the skipped elements not subtracted.
FilterRestoredLenBug(n, skipped) == n

\* data.set_len(len - nones) after filter_map's loop.
FilterRestoredLen(n, skipped) == n - skipped

\* The closure panics while it owns the value read from cell k (0-based):
\* the value dies with the closure's frame; the local Vec `data` is dropped
\* with the length it has, which releases the buffer and, its elements being
\* unions, runs no destructor.
Unwind(cs, k) == LeakAll([cs EXCEPT ![k + 1] = Take(@, "f")])

\* map::<S, F>(self, f): into_data, len read, set_len(0).
MapBegin(s, fn) ==
    /\ pc = "idle"
    /\ cells' = Settle(cells, len)
    /\ savedLen' = len
    /\ len' = LoopLen(len)
    /\ i' = 0
    /\ f' = fn
    /\ sel' = s
    /\ pc' = "map"
    /\ hist' = Snap("map", fn, s)
    /\ UNCHANGED <<kind, U, iter, drain, wtag, tag, ptr, cap, heap, nones, out, faults>>

\* One pass of map's loop: read cell i, apply f, write the result back.
MapStep ==
    /\ pc = "map"
    /\ i < savedLen
    /\ faults' = faults \cup ReadFaults(cells[i + 1], tag)
    /\ \E x \in ReadVals(cells[i + 1], tag) :
          IF Panics(f, x)
          THEN /\ cells' = Unwind(cells, i)
               /\ heap' = NoBlock
               /\ pc' = "panicked"
               /\ UNCHANGED i
          ELSE /\ cells' = [cells EXCEPT ![i + 1] = Take(@, "f"),
                                         ![MapWriteIndex(i) + 1] =
                                              NewVal(Output(U, sel), Apply(f, x))]
               /\ i' = i + 1
               /\ UNCHANGED <<heap, pc>>
    /\ UNCHANGED <<kind, U, iter, drain, wtag, tag, ptr, cap, len, savedLen, nones, f, sel, out, hist>>

\* After map's loop: set_len(len), and the Vec is returned under the new tag.
MapEnd ==
    /\ pc = "map"
    /\ i = savedLen
    /\ len' = MapRestoredLen(savedLen)
    /\ tag' = Output(U, sel)
    /\ pc' = "idle"
    /\ i' = 0
    /\ savedLen' = 0
    /\ f' = "none"
    /\ sel' = 0
    /\ UNCHANGED <<kind, U, iter, drain, wtag, ptr, cap, cells, heap, nones, out, faults, hist>>

\* filter_map::<S, F>(self, f) / maybe_map: into_data, len read, set_len(0).
FilterMapBegin(s, fn) ==
    /\ pc = "idle"
    /\ cells' = Settle(cells, len)
    /\ savedLen' = len
    /\ len' = LoopLen(len)
    /\ i' = 0
    /\ nones' = 0
    /\ f' = fn
    /\ sel' = s
    /\ pc' = "filter_map"
    /\ hist' = Snap("filter_map", fn, s)
    /\ UNCHANGED <<kind, U, iter, drain, wtag, tag, ptr, cap, heap, out, faults>>

\* One pass of filter_map's loop: read cell i, apply f, and either count a
\* None or write the result to cell i - nones.
FilterMapStep ==
    /\ pc = "filter_map"
    /\ i < savedLen
    /\ faults' = faults \cup ReadFaults(cells[i + 1], tag)
    /\ \E x \in ReadVals(cells[i + 1], tag) :
          IF Panics(f, x)
          THEN /\ cells' = Unwind(cells, i)
               /\ heap' = NoBlock
               /\ pc' = "panicked"
               /\ UNCHANGED <<i, nones>>
          ELSE IF Declines(f, x)
          THEN /\ cells' = [cells EXCEPT ![i + 1] = Take(@, "f")]
               /\ nones' = nones + 1
               /\ i' = i + 1
               /\ UNCHANGED <<heap, pc>>
          ELSE /\ cells' = [cells EXCEPT ![i + 1] = Take(@, "f"),
                                         ![FilterWriteIndex(i, nones) + 1] =
                                              NewVal(Output(U, sel), Apply(f, x))]
               /\ i' = i + 1
               /\ UNCHANGED <<heap, pc, nones>>
    /\ UNCHANGED <<kind, U, iter, drain, wtag, tag, ptr, cap, len, savedLen, f, sel, out, hist>>

\* After filter_map's loop: set_len(len - nones), the Vec is returned retagged.
FilterMapEnd ==
    /\ pc = "filter_map"
    /\ i = savedLen
    /\ len' = FilterRestoredLen(savedLen, nones)
    /\ tag' = Output(U, sel)
    /\ pc' = "idle"
    /\ i' = 0
    /\ savedLen' = 0
    /\ nones' = 0
    /\ f' = "none"
    /\ sel' = 0
    /\ UNCHANGED <<kind, U, iter, drain, wtag, ptr, cap, cells, heap, out, faults, hist>>

----------------------------------------------------------------------------
(* The buffer handoffs: into_vec / try_to_vec and into_vec_map /            *)
(* try_to_vec_map.  The buffer of cells is rewritten, front to back, into  *)
(* an array of the element type, and handed to a Vec of that type.         *)

\* The gate asking for equal alignments.
AlignOkBug(u, e) == CellAlign(u) = TypeAlign(e)

\* The alignment gate: align_of::<U::Union>() % align_of::<E>() == 0.
AlignOk(u, e) == CellAlign(u) % TypeAlign(e) = 0

\* How a failed gate ends.  UnionVec returns Err(AlignError); SelectVec's
\* try_to_vec and try_to_vec_map call panic!.
GateFailure(k) == IF k = "UnionVec" THEN "err" ELSE "panicked"

\* The element type of the Vec a handoff returns: T for into_vec, the
\* selected type for into_vec_map.
ElemType(u, t, s) == IF s = 0 THEN t ELSE Output(u, s)

\* Overlaps with the write landing one cell further on.
OverlapsBug(j, k, elemSize, cellSize) == j = k + 1

\* Cell j and element slot k (both 0-based) share bytes of the buffer:
\* base_write_ptr is base_read_ptr cast to *mut E.
Overlaps(j, k, elemSize, cellSize) ==
    /\ j * cellSize < (k + 1) * elemSize
    /\ k * elemSize < (j + 1) * cellSize

\* The bits of a cell that a write of an element has gone over.
Overwritten == [ty |-> "bytes", v |-> 0, fate |-> "out", dtor |-> 0]

\* NewCap with the capacity left in cells instead of elements.
NewCapBug(oldCap, cellSize, elemSize) == oldCap

\* new_cap = old_cap_in_bytes / size_of::<E>().
NewCap(oldCap, cellSize, elemSize) == (oldCap * cellSize) \div elemSize

\* The size the reallocation test divides by.  into_vec and try_to_vec test
\* size_of::<T>() (T is their element type); try_to_vec_map tests the size of
\* the selected type; UnionVec::into_vec_map tests size_of::<T>(), the type
\* the vector had.
ReallocDivisor(k, t, e) == IF k = "UnionVec" THEN TypeSize(t) ELSE TypeSize(e)

\* old_cap_in_bytes % size != 0: the buffer is reallocated to new_cap elements.
NeedsRealloc(k, u, t, e, oldCap) == (oldCap * CellSize(u)) % ReallocDivisor(k, t, e) # 0

\* The pointer the returned Vec is built from: Vec::from_raw_parts(
\* base_write_ptr, len, new_cap).  The result of realloc is discarded.
HandoffPtr(oldPtr, h) == oldPtr

\* into_vec() / try_to_vec() with s = 0 and fn = "none";
\* into_vec_map::<S, F>(f) / try_to_vec_map::<S, F>(f) otherwise.
\* The gate comes first; past it: into_data, capacity and len read, set_len(0).
HandoffBegin(s, fn) ==
    /\ pc = "idle"
    /\ hist' = [Snap(IF s = 0 THEN "into_vec" ELSE "into_vec_map", fn, s)
                    EXCEPT !.via = IF s = 0 THEN Via ELSE NoVia]
    /\ IF ~AlignOk(U, ElemType(U, tag, s))
       THEN /\ pc' = GateFailure(kind)
            /\ cells' = Abandon(kind, Settle(cells, len), len, tag).cells
            /\ faults' = faults \cup Abandon(kind, Settle(cells, len), len, tag).faults
            /\ heap' = NoBlock
            /\ len' = 0
            /\ UNCHANGED <<i, savedLen, f, sel, out>>
       ELSE /\ pc' = "handoff"
            /\ cells' = Settle(cells, len)
            /\ savedLen' = len
            /\ len' = LoopLen(len)
            /\ i' = 0
            /\ f' = fn
            /\ sel' = s
            /\ out' = [NoOut EXCEPT !.ty = ElemType(U, tag, s)]
            /\ UNCHANGED <<heap, faults>>
    /\ UNCHANGED <<kind, U, iter, drain, wtag, tag, ptr, cap, nones>>

\* One pass of the handoff's loop: read cell i as T, apply f if there is one,
\* write the element to slot i of the array of elements.
HandoffStep ==
    /\ pc = "handoff"
    /\ i < savedLen
    /\ faults' = faults \cup ReadFaults(cells[i + 1], tag)
    /\ \E x \in ReadVals(cells[i + 1], tag) :
          IF sel # 0 /\ Panics(f, x)
          THEN /\ cells' = Unwind(cells, i)
               /\ heap' = NoBlock
               /\ pc' = "panicked"
               /\ UNCHANGED <<i, out>>
          ELSE /\ cells' = [k \in DOMAIN cells |->
                               IF Overlaps(k - 1, i, TypeSize(out.ty), CellSize(U))
                               THEN Overwritten
                               ELSE IF k = i + 1 THEN Take(cells[k], "out")
                               ELSE cells[k]]
               /\ out' = [out EXCEPT !.elems =
                             Append(@, [ty |-> out.ty,
                                        v |-> IF sel = 0 THEN x ELSE Apply(f, x)])]
               /\ i' = i + 1
               /\ UNCHANGED <<heap, pc>>
    /\ UNCHANGED <<kind, U, iter, drain, wtag, tag, ptr, cap, len, savedLen, nones, f, sel, hist>>

\* old_cap_in_bytes / size_of::<E>() and old_cap_in_bytes % size: integer
\* division by a size of 0 panics ("attempt to divide by zero").
DividesByZero(k, t, e) == TypeSize(e) = 0 \/ ReallocDivisor(k, t, e) = 0

\* After the loop: mem::forget(data), the new capacity, the reallocation when
\* the bytes do not divide, and Vec::from_raw_parts.  When the division
\* panics the forgotten buffer is never released.
HandoffEnd ==
    /\ pc = "handoff"
    /\ i = savedLen
    /\ IF DividesByZero(kind, tag, out.ty)
       THEN /\ pc' = "panicked"
            /\ UNCHANGED <<heap, out>>
       ELSE LET newCap == NewCap(cap, CellSize(U), TypeSize(out.ty))
            IN  /\ IF NeedsRealloc(kind, U, tag, out.ty, cap)
                   THEN \E moved \in BOOLEAN :
                           heap' = Realloc(heap, newCap * TypeSize(out.ty), moved)
                   ELSE heap' = heap
                /\ out' = [out EXCEPT !.ptr = HandoffPtr(ptr, heap'),
                                      !.len = savedLen,
                                      !.cap = newCap]
                /\ pc' = "handed"
    /\ UNCHANGED <<kind, U, iter, drain, wtag, tag, ptr, cap, len, cells, i, savedLen, nones, f, sel,
                   faults, hist>>

----------------------------------------------------------------------------
(* The typed handle: SelectHandle<T, U>, one union cell and a phantom tag.  *)
(* The cell is cells[1]; pc = "handle" while the handle is held.            *)

\* SelectHandle::from(v): from_unchecked writes v into an uninitialized union.
\* T is not tied to the universe here either.
InitHandle ==
    /\ kind = "SelectHandle"
    /\ \E inst \in Instantiations, v \in Vals :
          /\ U = inst.U
          /\ tag = inst.T
          /\ cells = <<NewVal(inst.T, v)>>
          /\ hist = [op |-> "from", tag |-> inst.T, ptr |-> 0, cap |-> 0, len |-> 0,
                     vs |-> <<>>, f |-> "none", sel |-> 0, ret |-> Uninit,
                     via |-> NoVia, drain |-> NoDrain]
    /\ cap = 1
    /\ len = 1
    /\ ptr = 0
    /\ heap = NoBlock
    /\ pc = "handle"
    /\ i = 0
    /\ savedLen = 0
    /\ nones = 0
    /\ f = "none"
    /\ sel = 0
    /\ out = NoOut
    /\ faults = {}
    /\ wtag = "none"
    /\ drain = NoDrain
    /\ iter = NoIter

Init == InitVec \/ InitHandle

\* ForgetHandle with the mem::forget left out: the consumed handle's Drop
\* runs drop_in_place::<T>() on the cell.
ForgetHandleBug(c) == Destroy(c)

\* mem::forget(self) in into() and into_inner(): the consumed handle's Drop
\* does not run, the cell is left as it is.
ForgetHandle(c) == c

\* into(self): ptr::read of the cell as T, then mem::forget(self).  The value
\* now belongs to `who`; x is the payload the read gave.
HandleTake(c, who, x) == ForgetHandle([Take(c, who) EXCEPT !.v = x])

\* into(): the T goes to the caller.
HandleInto ==
    /\ pc = "handle"
    /\ faults' = faults \cup ReadFaults(cells[1], tag)
    /\ \E x \in ReadVals(cells[1], tag) :
          /\ cells' = <<HandleTake(cells[1], "caller", x)>>
          /\ hist' = [Snap("h_into", "none", 0) EXCEPT !.ret = cells'[1]]
    /\ len' = 0
    /\ pc' = "consumed"
    /\ UNCHANGED <<kind, U, iter, drain, wtag, tag, ptr, cap, heap, i, savedLen, nones, f, sel, out>>

\* into_inner(): the union goes to the caller as it is, then mem::forget(self).
HandleIntoInner ==
    /\ pc = "handle"
    /\ cells' = <<ForgetHandle(Take(cells[1], "caller"))>>
    /\ hist' = [Snap("h_into_inner", "none", 0) EXCEPT !.ret = cells'[1]]
    /\ len' = 0
    /\ pc' = "consumed"
    /\ UNCHANGED <<kind, U, iter, drain, wtag, tag, ptr, cap, heap, i, savedLen, nones, f, sel, out, faults>>

\* map::<S, F>(self, f): inner = self.into(); u = f(inner); SelectHandle::from(u).
HandleMap(s, fn) ==
    /\ pc = "handle"
    /\ faults' = faults \cup ReadFaults(cells[1], tag)
    /\ \E x \in ReadVals(cells[1], tag) :
          /\ hist' = [Snap("h_map", fn, s) EXCEPT !.ret = HandleTake(cells[1], "f", x)]
          /\ IF Panics(fn, x)
             THEN /\ cells' = <<HandleTake(cells[1], "f", x)>>
                  /\ len' = 0
                  /\ pc' = "panicked"
                  /\ UNCHANGED tag
             ELSE /\ cells' = <<NewVal(Output(U, s), Apply(fn, x))>>
                  /\ tag' = Output(U, s)
                  /\ UNCHANGED <<len, pc>>
    /\ UNCHANGED <<kind, U, iter, drain, wtag, ptr, cap, heap, i, savedLen, nones, f, sel, out>>

\* filter_map::<S, F>(self, f): inner = self.into(); maybe = f(inner)?;
\* Some(SelectHandle::from(maybe)).
HandleFilterMap(s, fn) ==
    /\ pc = "handle"
    /\ faults' = faults \cup ReadFaults(cells[1], tag)
    /\ \E x \in ReadVals(cells[1], tag) :
          /\ hist' = [Snap("h_filter_map", fn, s) EXCEPT !.ret = HandleTake(cells[1], "f", x)]
          /\ IF Panics(fn, x) \/ Declines(fn, x)
             THEN /\ cells' = <<HandleTake(cells[1], "f", x)>>
                  /\ len' = 0
                  /\ pc' = IF Panics(fn, x) THEN "panicked" ELSE "consumed"
                  /\ UNCHANGED tag
             ELSE /\ cells' = <<NewVal(Output(U, s), Apply(fn, x))>>
                  /\ tag' = Output(U, s)
                  /\ UNCHANGED <<len, pc>>
    /\ UNCHANGED <<kind, U, iter, drain, wtag, ptr, cap, heap, i, savedLen, nones, f, sel, out>>

\* T: Copy, the bound of copy_current().
IsCopy(t) == t # "String"

\* change_to::<S>(self): ptr::drop_in_place::<T>() on the cell, then
\* self.into_inner().select::<S>(), which is SelectHandle::from(
\* union.cast::<Output>()): the bits of the destroyed value under the new tag.
HandleChangeTo(s) ==
    /\ pc = "handle"
    /\ cells[1].dtor < MaxDtor
    /\ faults' = faults \cup ReadFaults(cells[1], tag)
    /\ cells' = <<ForgetHandle(Destroy(cells[1]))>>
    /\ hist' = [Snap("h_change_to", "none", s) EXCEPT !.ret = cells'[1]]
    /\ tag' = Output(U, s)
    /\ \E o \in CastOutcomes(U, Output(U, s)) :
          pc' = IF o = "value" THEN "handle" ELSE o
    /\ UNCHANGED <<kind, U, iter, drain, wtag, ptr, cap, len, heap, i, savedLen, nones, f, sel, out>>

\* write(&mut self, item): ptr::write over the cell; what the cell held is
\* overwritten without being dropped.
HandleWrite(v) ==
    /\ pc = "handle"
    /\ cells' = <<NewVal(tag, v)>>
    /\ hist' = [Snap("h_write", "none", 0) EXCEPT !.ret = NewVal(tag, v)]
    /\ UNCHANGED <<kind, U, iter, drain, wtag, tag, ptr, cap, len, heap, pc, i, savedLen, nones, f, sel, out,
                   faults>>

\* copy_current(&self) where T: Copy: *self.deref().
HandleCopyCurrent ==
    /\ pc = "handle"
    /\ IsCopy(tag)
    /\ faults' = faults \cup (ReadFaults(cells[1], tag) \ {"moved"})
    /\ \E x \in ReadVals(cells[1], tag) :
          hist' = [Snap("h_copy_current", "none", 0) EXCEPT !.ret = NewVal(tag, x)]
    /\ UNCHANGED <<kind, U, iter, drain, wtag, tag, ptr, cap, len, cells, heap, pc, i, savedLen, nones, f, sel,
                   out>>

\* into_with(self, val): self.write(val); self.into().
HandleIntoWith(v) ==
    /\ pc = "handle"
    /\ cells' = <<HandleTake(NewVal(tag, v), "caller", v)>>
    /\ hist' = [Snap("h_into_with", "none", 0) EXCEPT !.ret = cells'[1]]
    /\ len' = 0
    /\ pc' = "consumed"
    /\ UNCHANGED <<kind, U, iter, drain, wtag, tag, ptr, cap, heap, i, savedLen, nones, f, sel, out, faults>>

\* Drop for SelectHandle: ptr::drop_in_place::<T>() on the cell, whatever
\* the cell holds.
HandleDrop ==
    /\ pc = "handle"
    /\ faults' = faults \cup ReadFaults(cells[1], tag)
    /\ cells' = <<Destroy(cells[1])>>
    /\ hist' = Snap("h_drop", "none", 0)
    /\ len' = 0
    /\ pc' = "dropped"
    /\ UNCHANGED <<kind, U, iter, drain, wtag, tag, ptr, cap, heap, i, savedLen, nones, f, sel, out>>

----------------------------------------------------------------------------
(* The borrowing window: SelectSlice<T, D>, a retagged &mut [D::Union] over *)
(* the cells [0, len) of a SelectVec.                                       *)

\* as_select_slice(&mut self): the window starts with the vector's tag.
AsSelectSlice ==
    /\ pc = "idle"
    /\ kind = "SelectVec"
    /\ cells' = Settle(cells, len)
    /\ wtag' = tag
    /\ pc' = "window"
    /\ hist' = Snap("as_select_slice", "none", 0)
    /\ UNCHANGED <<kind, U, iter, drain, tag, ptr, cap, len, heap, i, savedLen, nones, f, sel, out, faults>>

\* SelectSlice::change_type::<S>(self): the same slice under another tag.
SliceChangeType(s) ==
    /\ pc = "window"
    /\ wtag' = Output(U, s)
    /\ hist' = [Snap("slice_change_type", "none", s) EXCEPT !.tag = wtag]
    /\ UNCHANGED <<kind, U, iter, drain, tag, ptr, cap, len, cells, heap, pc, i, savedLen, nones, f, sel,
                   out, faults>>

\* SelectSlice::map::<S, F>(self, f): ptr and len of the slice are read; the
\* length of the vector is not touched.
SliceMapBegin(s, fn) ==
    /\ pc = "window"
    /\ savedLen' = len
    /\ i' = 0
    /\ f' = fn
    /\ sel' = s
    /\ pc' = "slice_map"
    /\ hist' = [Snap("slice_map", fn, s) EXCEPT !.tag = wtag]
    /\ UNCHANGED <<kind, U, iter, drain, wtag, tag, ptr, cap, len, cells, heap, nones, out, faults>>

\* One pass of the loop: read cell i as the window's type, apply f, write the
\* result back.  When f panics the value read dies with f's frame, and the
\* unwinding reaches the vector the window borrows from: its Drop drains the
\* cells [0, len) as values of the vector's tag.
SliceMapStep ==
    /\ pc = "slice_map"
    /\ i < savedLen
    /\ \E x \in ReadVals(cells[i + 1], wtag) :
          IF Panics(f, x)
          THEN LET cs == [cells EXCEPT ![i + 1] = Take(@, "f")]
                   rest == Abandon(kind, cs, len, tag)
               IN  /\ cells' = rest.cells
                   /\ faults' = faults \cup ReadFaults(cells[i + 1], wtag) \cup rest.faults
                   /\ len' = 0
                   /\ heap' = NoBlock
                   /\ pc' = "panicked"
                   /\ UNCHANGED i
          ELSE /\ cells' = [cells EXCEPT ![i + 1] = NewVal(Output(U, sel), Apply(f, x))]
               /\ faults' = faults \cup ReadFaults(cells[i + 1], wtag)
               /\ i' = i + 1
               /\ UNCHANGED <<len, heap, pc>>
    /\ UNCHANGED <<kind, U, iter, drain, wtag, tag, ptr, cap, savedLen, nones, f, sel, out, hist>>

\* After the loop: the slice is returned under the selected tag.
SliceMapEnd ==
    /\ pc = "slice_map"
    /\ i = savedLen
    /\ wtag' = Output(U, sel)
    /\ pc' = "window"
    /\ i' = 0
    /\ savedLen' = 0
    /\ f' = "none"
    /\ sel' = 0
    /\ UNCHANGED <<kind, U, iter, drain, tag, ptr, cap, len, cells, heap, nones, out, faults, hist>>

\* The window goes out of scope: the borrow ends, the vector is as it is.
SliceRelease ==
    /\ pc = "window"
    /\ wtag' = "none"
    /\ pc' = "idle"
    /\ hist' = [Snap("slice_release", "none", 0) EXCEPT !.tag = wtag]
    /\ UNCHANGED <<kind, U, iter, drain, tag, ptr, cap, len, cells, heap, i, savedLen, nones, f, sel, out,
                   faults>>

----------------------------------------------------------------------------
(* SelectVec::drain(r): vec::Drain over the unions, each yielded union read *)
(* as T by SelectHandle::from_inner(i).into().                              *)

\* The value a Drain yields: the cell's index and the T read out of it.
Yield(j, t, x) == [idx |-> j, ty |-> t, v |-> x]

\* FrontAfterNext with the iterator not advanced.
FrontAfterNextBug(fr) == fr

\* slice::Iter::next(): the front of the iterator after yielding cell fr.
FrontAfterNext(fr) == fr + 1

\* slice::Iter::next_back(): the cell yielded from the back, and the new back.
BackAfterNextBack(bk) == bk - 1

\* drain(a..b): Vec::drain asserts a <= b and b <= len, sets the length of
\* the Vec to a, and hands out an iterator over the cells [a, b) that
\* remembers the tail [b, len).  A failed assertion unwinds through the
\* frame that owns the vector.
DrainBegin(a, b) ==
    /\ pc = "idle"
    /\ kind = "SelectVec"
    /\ IF a > b \/ b > len
       THEN /\ cells' = Abandon(kind, Settle(cells, len), len, tag).cells
            /\ faults' = faults \cup Abandon(kind, Settle(cells, len), len, tag).faults
            /\ len' = 0
            /\ heap' = NoBlock
            /\ pc' = "panicked"
            /\ hist' = Snap("drain", "none", 0)
            /\ UNCHANGED drain
       ELSE LET d == [start |-> a, front |-> a, back |-> b, tail_start |-> b,
                      tail_len |-> len - b, yielded |-> <<>>]
            IN  /\ cells' = Settle(cells, len)
                /\ len' = a
                /\ drain' = d
                /\ pc' = "drain"
                /\ hist' = [Snap("drain", "none", 0) EXCEPT !.drain = d]
                /\ UNCHANGED <<faults, heap>>
    /\ UNCHANGED <<kind, U, iter, wtag, tag, ptr, cap, i, savedLen, nones, f, sel, out>>

\* Drain::next(): ptr::read of the cell at the front, given to the caller as T.
DrainNext ==
    /\ pc = "drain"
    /\ drain.front < drain.back
    /\ LET j == drain.front
       IN  /\ cells' = [cells EXCEPT ![j + 1] = Take(@, "caller")]
           /\ faults' = faults \cup ReadFaults(cells[j + 1], tag)
           /\ \E x \in ReadVals(cells[j + 1], tag) :
                 drain' = [drain EXCEPT !.front = FrontAfterNext(j),
                                        !.yielded = Append(@, Yield(j, tag, x))]
    /\ UNCHANGED <<kind, U, iter, wtag, tag, ptr, cap, len, heap, pc, i, savedLen, nones, f, sel,
                   out, hist>>

\* Drain::next_back(): ptr::read of the cell before the back.
DrainNextBack ==
    /\ pc = "drain"
    /\ drain.front < drain.back
    /\ LET j == BackAfterNextBack(drain.back)
       IN  /\ cells' = [cells EXCEPT ![j + 1] = Take(@, "caller")]
           /\ faults' = faults \cup ReadFaults(cells[j + 1], tag)
           /\ \E x \in ReadVals(cells[j + 1], tag) :
                 drain' = [drain EXCEPT !.back = j,
                                        !.yielded = Append(@, Yield(j, tag, x))]
    /\ UNCHANGED <<kind, U, iter, wtag, tag, ptr, cap, len, heap, pc, i, savedLen, nones, f, sel,
                   out, hist>>

\* TailMoved with the tail left where it was.
TailMovedBug(cs, d) == cs

\* The cells of the Vec after Drain's drop moved the tail [tail_start,
\* tail_start + tail_len) down to start: the bits left behind belong to no
\* value.
TailMoved(cs, d) ==
    [k \in DOMAIN cs |->
        IF k <= d.start THEN cs[k]
        ELSE IF k <= d.start + d.tail_len THEN cs[k + (d.tail_start - d.start)]
        ELSE Uninit]

\* Drop for Drain: the unions not yet yielded are dropped as unions, which
\* runs no destructor; then the tail is moved down and the length restored.
DrainEnd ==
    /\ pc = "drain"
    /\ cells' = TailMoved(cells, drain)
    /\ len' = drain.start + drain.tail_len
    /\ drain' = NoDrain
    /\ pc' = "idle"
    /\ UNCHANGED <<kind, U, iter, wtag, tag, ptr, cap, heap, i, savedLen, nones, f, sel, out,
                   faults, hist>>

----------------------------------------------------------------------------
(* iter() and into_iter(): slice::Iter and vec::IntoIter over the unions,   *)
(* each item seen as T.                                                     *)

\* BackAfterIterBack taking the cell from the wrong end.
BackAfterIterBackBug(bk) == 0

\* slice::Iter::next_back() / vec::IntoIter::next_back(): the cell yielded
\* from the back, which is the new back.
BackAfterIterBack(bk) == bk - 1

\* iter(&self): self.data.iter() over the cells [0, len).
IterBegin ==
    /\ pc = "idle"
    /\ kind = "SelectVec"
    /\ cells' = Settle(cells, len)
    /\ iter' = [NoIter EXCEPT !.back = len]
    /\ pc' = "iter"
    /\ hist' = Snap("iter", "none", 0)
    /\ UNCHANGED <<kind, U, wtag, drain, tag, ptr, cap, len, heap, i, savedLen, nones, f, sel,
                   out, faults>>

\* Iter::next(): a reference to the cell at the front, transmuted to &T; None
\* when the two ends have met.
IterNext ==
    /\ pc = "iter"
    /\ IF iter.front < iter.back
       THEN /\ faults' = faults \cup ReadFaults(cells[iter.front + 1], tag)
            /\ \E x \in ReadVals(cells[iter.front + 1], tag) :
                  iter' = [iter EXCEPT !.front = @ + 1,
                                       !.yielded = Append(@, Yield(iter.front, tag, x))]
       ELSE /\ iter' = [iter EXCEPT !.none = TRUE]
            /\ UNCHANGED faults
    /\ UNCHANGED <<kind, U, wtag, drain, tag, ptr, cap, len, cells, heap, pc, i, savedLen,
                   nones, f, sel, out, hist>>

\* Iter::next_back(), which is next() of iter().rev().
IterNextBack ==
    /\ pc = "iter"
    /\ IF iter.front < iter.back
       THEN LET j == BackAfterIterBack(iter.back)
            IN  /\ faults' = faults \cup ReadFaults(cells[j + 1], tag)
                /\ \E x \in ReadVals(cells[j + 1], tag) :
                      iter' = [iter EXCEPT !.back = j,
                                           !.yielded = Append(@, Yield(j, tag, x))]
       ELSE /\ iter' = [iter EXCEPT !.none = TRUE]
            /\ UNCHANGED faults
    /\ UNCHANGED <<kind, U, wtag, drain, tag, ptr, cap, len, cells, heap, pc, i, savedLen,
                   nones, f, sel, out, hist>>

\* The borrow of iter() ends.
IterEnd ==
    /\ pc = "iter"
    /\ iter' = NoIter
    /\ pc' = "idle"
    /\ UNCHANGED <<kind, U, wtag, drain, tag, ptr, cap, len, cells, heap, i, savedLen, nones,
                   f, sel, out, faults, hist>>

\* into_iter(self): self.into_data().into_iter(); the iterator owns the
\* buffer and the cells [0, len).
IntoIterBegin ==
    /\ pc = "idle"
    /\ kind = "SelectVec"
    /\ cells' = Settle(cells, len)
    /\ iter' = [NoIter EXCEPT !.back = len]
    /\ pc' = "into_iter"
    /\ hist' = Snap("into_iter", "none", 0)
    /\ UNCHANGED <<kind, U, wtag, drain, tag, ptr, cap, len, heap, i, savedLen, nones, f, sel,
                   out, faults>>

\* IntoIter::next(): the union at the front is moved out and given to the
\* caller as T by SelectItem::from_inner(i).into().
IntoIterNext ==
    /\ pc = "into_iter"
    /\ IF iter.front < iter.back
       THEN /\ cells' = [cells EXCEPT ![iter.front + 1] = Take(@, "caller")]
            /\ faults' = faults \cup ReadFaults(cells[iter.front + 1], tag)
            /\ \E x \in ReadVals(cells[iter.front + 1], tag) :
                  iter' = [iter EXCEPT !.front = @ + 1,
                                       !.yielded = Append(@, Yield(iter.front, tag, x))]
       ELSE /\ iter' = [iter EXCEPT !.none = TRUE]
            /\ UNCHANGED <<cells, faults>>
    /\ UNCHANGED <<kind, U, wtag, drain, tag, ptr, cap, len, heap, pc, i, savedLen, nones, f,
                   sel, out, hist>>

\* IntoIter::next_back().
IntoIterNextBack ==
    /\ pc = "into_iter"
    /\ IF iter.front < iter.back
       THEN LET j == BackAfterIterBack(iter.back)
            IN  /\ cells' = [cells EXCEPT ![j + 1] = Take(@, "caller")]
                /\ faults' = faults \cup ReadFaults(cells[j + 1], tag)
                /\ \E x \in ReadVals(cells[j + 1], tag) :
                      iter' = [iter EXCEPT !.back = j,
                                           !.yielded = Append(@, Yield(j, tag, x))]
       ELSE /\ iter' = [iter EXCEPT !.none = TRUE]
            /\ UNCHANGED <<cells, faults>>
    /\ UNCHANGED <<kind, U, wtag, drain, tag, ptr, cap, len, heap, pc, i, savedLen, nones, f,
                   sel, out, hist>>

\* Drop for vec::IntoIter: the unions not yet yielded are dropped as unions,
\* which runs no destructor, and the buffer is released.
IntoIterEnd ==
    /\ pc = "into_iter"
    /\ cells' = LeakAll(cells)
    /\ len' = 0
    /\ heap' = NoBlock
    /\ iter' = NoIter
    /\ pc' = "consumed"
    /\ UNCHANGED <<kind, U, wtag, drain, tag, ptr, cap, i, savedLen, nones, f, sel, out,
                   faults, hist>>

----------------------------------------------------------------------------
(* UnionBox<T, U>: one union on the heap, in a Box<U::Union>.               *)

\* UnionBox::new(x): Box::new(SelectHandle::<T, U>::from(x).into_inner()).
InitBox ==
    /\ kind = "UnionBox"
    /\ \E inst \in Instantiations, v \in Vals :
          /\ U = inst.U
          /\ tag = inst.T
          /\ cells = <<NewVal(inst.T, v)>>
          /\ heap = [addr |-> 1, size |-> CellSize(inst.U), align |-> CellAlign(inst.U)]
          /\ hist = [op |-> "box_new", tag |-> inst.T, ptr |-> 0, cap |-> 0, len |-> 0,
                     vs |-> <<>>, f |-> "none", sel |-> 0, ret |-> Uninit,
                     via |-> NoVia, drain |-> NoDrain]
    /\ cap = 1
    /\ len = 1
    /\ ptr = 1
    /\ pc = "box"
    /\ i = 0
    /\ savedLen = 0
    /\ nones = 0
    /\ f = "none"
    /\ sel = 0
    /\ out = NoOut
    /\ faults = {}
    /\ wtag = "none"
    /\ drain = NoDrain
    /\ iter = NoIter

\* ReusedBlock with the result put into a new Box.
ReusedBlockBug(h) == [h EXCEPT !.addr = Fresh(h.addr)]

\* The block of the Box that map returns: Box::from_raw(ptr) of the pointer
\* Box::into_raw(data) gave.
ReusedBlock(h) == h

\* map::<S, F>(self, f): the union is read out of the block, mapped as a
\* SelectHandle, and the result written back into the block.  When f panics
\* the raw pointer is all that is left of the Box: the block is never
\* released.
BoxMap(s, fn) ==
    /\ pc = "box"
    /\ faults' = faults \cup ReadFaults(cells[1], tag)
    /\ \E x \in ReadVals(cells[1], tag) :
          /\ hist' = [Snap("box_map", fn, s) EXCEPT !.ret = HandleTake(cells[1], "f", x)]
          /\ IF Panics(fn, x)
             THEN /\ cells' = <<HandleTake(cells[1], "f", x)>>
                  /\ len' = 0
                  /\ pc' = "panicked"
                  /\ UNCHANGED <<tag, heap, ptr>>
             ELSE /\ cells' = <<NewVal(Output(U, s), Apply(fn, x))>>
                  /\ tag' = Output(U, s)
                  /\ heap' = ReusedBlock(heap)
                  /\ ptr' = heap'.addr
                  /\ UNCHANGED <<len, pc>>
    /\ UNCHANGED <<kind, U, iter, drain, wtag, cap, i, savedLen, nones, f, sel, out>>

\* Deref: &*(union as *const T).
BoxDeref ==
    /\ pc = "box"
    /\ faults' = faults \cup ReadFaults(cells[1], tag)
    /\ \E x \in ReadVals(cells[1], tag) :
          hist' = [Snap("box_deref", "none", 0) EXCEPT !.ret = NewVal(tag, x)]
    /\ UNCHANGED <<kind, U, iter, drain, wtag, tag, ptr, cap, len, cells, heap, pc, i,
                   savedLen, nones, f, sel, out>>

\* DerefMut, used to assign: *b = v drops the T in place and stores v.
BoxAssign(v) ==
    /\ pc = "box"
    /\ faults' = faults \cup ReadFaults(cells[1], tag)
    /\ cells' = <<NewVal(tag, v)>>
    /\ hist' = [Snap("box_assign", "none", 0) EXCEPT !.ret = Destroy(cells[1])]
    /\ UNCHANGED <<kind, U, iter, drain, wtag, tag, ptr, cap, len, heap, pc, i, savedLen,
                   nones, f, sel, out>>

\* Drop for UnionBox: ptr::drop_in_place::<T>(self.deref_mut()); then the
\* Box<U::Union> field releases the block.
BoxDrop ==
    /\ pc = "box"
    /\ faults' = faults \cup ReadFaults(cells[1], tag)
    /\ cells' = <<Destroy(cells[1])>>
    /\ len' = 0
    /\ heap' = NoBlock
    /\ pc' = "dropped"
    /\ hist' = Snap("box_drop", "none", 0)
    /\ UNCHANGED <<kind, U, iter, drain, wtag, tag, ptr, cap, i, savedLen, nones, f, sel, out>>

----------------------------------------------------------------------------
(* AnyVec<T, A, B, C>: the vector over the fixed union AnyInner<A, B, C>,   *)
(* whose type parameter T is checked against A, B and C when it runs.       *)

\* The A, B and C of the AnyVec under study.
AnyUniverse == <<"str", "ResultU32", "u32">>

\* AnyItem::is_valid(): TypeId::of::<T>() equals that of A, B or C.
is_valid(u, t) == t = u[1] \/ t = u[2] \/ t = u[3]

\* AnyVec::new() / AnyVec::with_capacity(n), the assert!(Self::is_valid())
\* passed.
InitAny ==
    /\ kind = "AnyVec"
    /\ U = AnyUniverse
    /\ \E t \in Types, n \in 0..MaxCap :
          /\ is_valid(AnyUniverse, t)
          /\ tag = t
          /\ cap = n
          /\ ptr = IF n = 0 THEN 0 ELSE 1
          /\ heap = IF n = 0 THEN NoBlock
                    ELSE [addr |-> 1, size |-> n * CellSize(AnyUniverse),
                          align |-> CellAlign(AnyUniverse)]
          /\ cells = [k \in 1..n |-> Uninit]
          /\ hist = [op |-> "new", tag |-> t, ptr |-> 0, cap |-> 0, len |-> 0,
                     vs |-> <<>>, f |-> "none", sel |-> 0, ret |-> Uninit,
                     via |-> NoVia, drain |-> NoDrain]
    /\ len = 0
    /\ pc = "idle"
    /\ i = 0
    /\ savedLen = 0
    /\ nones = 0
    /\ f = "none"
    /\ sel = 0
    /\ out = NoOut
    /\ faults = {}
    /\ wtag = "none"
    /\ drain = NoDrain
    /\ iter = NoIter

\* A failed assert!(..is_valid()): the panic unwinds through the frame that
\* owns the vector.  AnyVec implements no Drop and AnyInner is a union, so
\* the buffer is released and no destructor runs.
AnyAssertFails(op) ==
    /\ cells' = Abandon(kind, Settle(cells, len), len, tag).cells
    /\ len' = 0
    /\ heap' = NoBlock
    /\ pc' = "panicked"
    /\ hist' = Snap(op, "none", 0)
    /\ UNCHANGED <<kind, U, iter, drain, wtag, tag, ptr, cap, i, savedLen, nones, f, sel, out, faults>>

\* AnyVec::push(item): data.push(AnyItem::from(item).into_inner()), where
\* AnyItem::from begins with assert!(Self::is_valid()).
AnyPush(v) ==
    /\ pc = "idle"
    /\ IF is_valid(U, tag) THEN Push(v) ELSE AnyAssertFails("push")

\* AnyVec::pop(): data.pop().map(|i| i.select_unchecked()), a ptr::read of
\* the union as T followed by mem::forget.
AnyPop ==
    /\ pc = "idle"
    /\ cells' = IF len = 0 THEN Settle(cells, len)
                ELSE [Settle(cells, len) EXCEPT ![len] = Take(@, "caller")]
    /\ len' = IF len = 0 THEN 0 ELSE len - 1
    /\ faults' = IF len = 0 THEN faults ELSE faults \cup ReadFaults(cells[len], tag)
    /\ \E x \in (IF len = 0 THEN {0} ELSE ReadVals(cells[len], tag)) :
          hist' = [Snap("pop", "none", 0) EXCEPT
                      !.ret = IF len = 0 THEN Uninit ELSE NewVal(tag, x)]
    /\ UNCHANGED <<kind, U, iter, drain, wtag, tag, ptr, cap, heap, pc, i, savedLen, nones, f, sel, out>>

\* AnyVec::change_type::<t>(): assert!(AnyVec::<t, A, B, C>::is_valid()),
\* data.clear(), and the same Vec retagged.  The requested t is any type.
AnyChangeType(t) ==
    /\ pc = "idle"
    /\ IF is_valid(U, t)
       THEN /\ len' = ClearedLen(len)
            /\ cells' = [k \in DOMAIN cells |->
                            IF k <= len THEN ClearCell(cells[k])
                            ELSE Settle(cells, len)[k]]
            /\ tag' = t
            /\ hist' = Snap("change_type", "none", 0)
            /\ UNCHANGED <<kind, U, iter, drain, wtag, ptr, cap, heap, pc, i, savedLen, nones, f, sel,
                           out, faults>>
       ELSE AnyAssertFails("change_type")

----------------------------------------------------------------------------

Next ==
    \/ HandoffBegin(0, "none")
    \/ \E s \in DOMAIN U, fn \in MapFns : HandoffBegin(s, fn)
    \/ HandoffStep
    \/ HandoffEnd
    \/ \E s \in DOMAIN U, fn \in MapFns : MapBegin(s, fn)
    \/ MapStep
    \/ MapEnd
    \/ \E s \in DOMAIN U, fn \in FilterFns : FilterMapBegin(s, fn)
    \/ FilterMapStep
    \/ FilterMapEnd
    \/ \E v \in Vals : Push(v)
    \/ Pop
    \/ \E s \in DOMAIN U : ChangeTo(s)
    \/ Drop
    \/ HandleInto
    \/ HandleIntoInner
    \/ \E s \in DOMAIN U, fn \in MapFns : HandleMap(s, fn)
    \/ \E s \in DOMAIN U, fn \in FilterFns : HandleFilterMap(s, fn)
    \/ \E s \in DOMAIN U : HandleChangeTo(s)
    \/ \E v \in Vals : HandleWrite(v)
    \/ HandleCopyCurrent
    \/ \E v \in Vals : HandleIntoWith(v)
    \/ HandleDrop

Spec == Init /\ [][Next]_vars

\* A SelectVec filled with push and used through its windows.
InitSlice == InitVec /\ kind = "SelectVec"

NextSlice ==
    \/ \E v \in Vals : Push(v)
    \/ Drop
    \/ AsSelectSlice
    \/ \E s \in DOMAIN U : SliceChangeType(s)
    \/ \E s \in DOMAIN U, fn \in MapFns : SliceMapBegin(s, fn)
    \/ SliceMapStep
    \/ SliceMapEnd
    \/ SliceRelease

SpecSlice == InitSlice /\ [][NextSlice]_vars

\* A vector filled with push, rewritten with map and filter_map, and
\* emptied with drain.
NextDrain ==
    \/ \E v \in Vals : Push(v)
    \/ \E s \in DOMAIN U, fn \in MapFns : MapBegin(s, fn)
    \/ MapStep
    \/ MapEnd
    \/ \E s \in DOMAIN U, fn \in FilterFns : FilterMapBegin(s, fn)
    \/ FilterMapStep
    \/ FilterMapEnd
    \/ \E a \in 0..MaxCap : \E b \in a..MaxCap : DrainBegin(a, b)
    \/ DrainNext
    \/ DrainNextBack
    \/ DrainEnd

\* with_capacity(MaxCap): room for every length the bounds allow.
InitDrain == InitVec /\ cap = MaxCap

SpecDrain == InitDrain /\ [][NextDrain]_vars

\* A SelectVec filled with push and traversed with iter and into_iter.
NextIter ==
    \/ \E v \in Vals : Push(v)
    \/ IterBegin
    \/ IterNext
    \/ IterNextBack
    \/ IterEnd
    \/ IntoIterBegin
    \/ IntoIterNext
    \/ IntoIterNextBack
    \/ IntoIterEnd

InitIter == InitVec /\ kind = "SelectVec" /\ cap = MaxCap

SpecIter == InitIter /\ [][NextIter]_vars

\* A UnionBox mapped, read, assigned and dropped.
NextBox ==
    \/ \E s \in DOMAIN U, fn \in MapFns : BoxMap(s, fn)
    \/ BoxDeref
    \/ \E v \in Vals : BoxAssign(v)
    \/ BoxDrop

SpecBox == InitBox /\ [][NextBox]_vars

\* A vector over a universe with the unit type, filled with push and handed
\* off.
UnitUniverse == <<"u32", "String", "unit">>

InitUnit == InitOf({[U |-> UnitUniverse, T |-> "u32"]})

NextUnit ==
    \/ \E v \in Vals : Push(v)
    \/ HandoffBegin(0, "none")
    \/ \E s \in DOMAIN U, fn \in MapFns : HandoffBegin(s, fn)
    \/ HandoffStep
    \/ HandoffEnd

SpecUnit == InitUnit /\ [][NextUnit]_vars

\* An AnyVec used through push, pop and change_type.
NextAny ==
    \/ \E v \in Vals : AnyPush(v)
    \/ AnyPop
    \/ \E t \in Types : AnyChangeType(t)

SpecAny == InitAny /\ [][NextAny]_vars

----------------------------------------------------------------------------
(* The claims.                                                             *)

\* The elements filter_map is to leave: f's results for the elements it does
\* not decline, in the order of their sources, as values of type t.
RECURSIVE Kept(_, _, _)
Kept(fn, vs, t) ==
    IF vs = <<>> THEN <<>>
    ELSE (IF Declines(fn, Head(vs).v) THEN <<>>
          ELSE <<NewVal(t, Apply(fn, Head(vs).v))>>) \o Kept(fn, Tail(vs), t)

\* C1: between operations len <= capacity, every cell in [0, len) holds a
\* live value of the vector's current type, and no cell in [len, capacity)
\* holds a value the vector still owns.
C1_CellInvariant ==
    pc = "idle" =>
        /\ len <= cap
        /\ Len(cells) = cap
        /\ \A k \in 1..len : cells[k].ty = tag /\ cells[k].fate = "vec"
        /\ \A k \in (len + 1)..cap : cells[k].fate # "vec"

\* C1 witness: a filter_map has dropped elements of a vector and left others.
C1_Witness ==
    /\ pc = "idle"
    /\ hist.op = "filter_map"
    /\ 0 < len
    /\ len < hist.len
    /\ tag # hist.tag

\* C2: map(f) returns a vector of the same length whose cell i holds
\* f(old cell i) as a value of the selected type, in the same allocation,
\* with the same capacity.
C2_MapResult ==
    (pc = "idle" /\ hist.op = "map") =>
        /\ len = hist.len
        /\ cap = hist.cap
        /\ ptr = hist.ptr
        /\ heap.addr = ptr
        /\ tag = Output(U, hist.sel)
        /\ \A k \in 1..hist.len :
              cells[k] = NewVal(Output(U, hist.sel), Apply(hist.f, hist.vs[k].v))

\* C2 witness: a map over at least two elements with different payloads.
C2_Witness ==
    /\ pc = "idle"
    /\ hist.op = "map"
    /\ hist.len >= 2
    /\ hist.vs[1].v # hist.vs[2].v
    /\ tag # hist.tag

\* C3: while map or filter_map runs the length of the Vec is 0; when f fails
\* at cell k no destructor has run on any cell, the value of cell k belongs
\* to f alone, the cells after k still hold their values, abandoned, and no
\* cell was read twice.
C3_PanicSafety ==
    /\ pc \in {"map", "filter_map"} => len = 0
    /\ (pc = "panicked" /\ hist.op \in {"map", "filter_map"}) =>
          /\ len = 0
          /\ \A k \in DOMAIN cells : cells[k].dtor = 0 /\ cells[k].fate # "dropped"
          /\ cells[i + 1] = Take(hist.vs[i + 1], "f")
          /\ \A k \in (i + 2)..hist.len : cells[k] = Leak(hist.vs[k])
          /\ \A k \in 1..i : cells[k].fate \in {"f", "leaked"}
          /\ "moved" \notin faults

\* C3 witness: f failed with cells before it transformed and cells after it
\* untouched.
C3_Witness ==
    /\ pc = "panicked"
    /\ hist.op = "map"
    /\ i >= 1
    /\ i + 1 < hist.len

\* C4: filter_map(f) returns exactly the values f produced, in the order of
\* their sources, at indices 0..k-1, with the capacity it had.
C4_FilterMapResult ==
    (pc = "idle" /\ hist.op = "filter_map") =>
        /\ cap = hist.cap
        /\ tag = Output(U, hist.sel)
        /\ len = Len(Kept(hist.f, hist.vs, Output(U, hist.sel)))
        /\ SubSeq(cells, 1, len) = Kept(hist.f, hist.vs, Output(U, hist.sel))

\* C4 witness: an element was declined before one that was kept, so the kept
\* one had to move.
C4_Witness ==
    /\ pc = "idle"
    /\ hist.op = "filter_map"
    /\ hist.len >= 3
    /\ Declines(hist.f, hist.vs[1].v)
    /\ ~Declines(hist.f, hist.vs[2].v)
    /\ ~Declines(hist.f, hist.vs[3].v)
    /\ hist.vs[2].v # hist.vs[3].v
    /\ len = 2

\* C5: change_to runs T's destructor exactly once on every element the vector
\* held.
C5_ChangeToDestroys ==
    (pc = "idle" /\ hist.op = "change_to") =>
        \A k \in 1..hist.len : cells[k].dtor = 1 /\ cells[k].fate = "dropped"

C7_GateReportsError ==
    hist.op \in {"into_vec", "into_vec_map"} =>
        LET ok == AlignOk(U, ElemType(U, hist.tag, hist.sel))
        IN  /\ pc \in {"handoff", "handed"} => ok
            /\ ~ok => pc = "err"
            /\ ok => pc # "err"
            /\ (ok /\ pc = "panicked") => hist.sel # 0

\* C8: when the gate fails the vector is handed back as it was: same length,
\* capacity and contents, still usable.
C8_FailureKeepsVector ==
    (hist.op \in {"into_vec", "into_vec_map"}
        /\ ~AlignOk(U, ElemType(U, hist.tag, hist.sel))) =>
        /\ pc = "idle"
        /\ len = hist.len
        /\ cap = hist.cap
        /\ heap.addr = hist.ptr
        /\ SubSeq(cells, 1, len) = hist.vs

\* C9: a successful into_vec / try_to_vec returns an array of the vector's
\* length, in a live buffer, whose element i is the value cell i held.
C9_HandoffElements ==
    (pc = "handed" /\ hist.op = "into_vec") =>
        /\ out.len = hist.len
        /\ Len(out.elems) = hist.len
        /\ \A k \in 1..hist.len : out.elems[k] = [ty |-> hist.tag, v |-> hist.vs[k].v]
        /\ out.cap > 0 => out.ptr = heap.addr

\* C10: the capacity of the returned array is the whole number of elements
\* that fit the bytes of the old buffer: floor(old_cap * size(cell) / size(E)).
\* 4 cells of 16 bytes hold 8 elements of 8 bytes, 2 cells of 24 bytes hold
\* 12 elements of 4 bytes.
C10_HandoffCapacity ==
    pc = "handed" =>
        LET bytes == hist.cap * CellSize(U)
            size == TypeSize(out.ty)
        IN  /\ out.cap * size <= bytes
            /\ bytes < (out.cap + 1) * size
            /\ (hist.cap = 4 /\ CellSize(U) = 16 /\ size = 8) => out.cap = 8
            /\ (hist.cap = 2 /\ CellSize(U) = 24 /\ size = 4) => out.cap = 12

\* C10 witness: 2 cells of 24 bytes, both occupied, handed off as 12
\* elements of 4 bytes.
C10_Witness ==
    /\ pc = "handed"
    /\ hist.cap = 2
    /\ hist.len = 2
    /\ CellSize(U) = 24
    /\ TypeSize(out.ty) = 4
    /\ out.cap = 12

\* C11: into_vec_map(f) / try_to_vec_map(f) and map(f) followed by into_vec /
\* try_to_vec end alike: a failed gate is reported the same way, and a returned
\* array has, in a live buffer, the elements f gives for the cells the vector
\* held, in order, with the capacity the bytes of the old buffer allow.
C11_MapThenHandoff ==
    LET composed == hist.op = "into_vec" /\ hist.via.op = "map"
        fused == hist.op = "into_vec_map"
        fn == IF composed THEN hist.via.f ELSE hist.f
        s == IF composed THEN hist.via.sel ELSE hist.sel
        vs == IF composed THEN hist.via.vs ELSE hist.vs
    IN  (composed \/ fused) =>
            /\ ~AlignOk(U, Output(U, s)) => pc = GateFailure(kind)
            /\ pc = "handed" =>
                  /\ out.ty = Output(U, s)
                  /\ out.len = Len(vs)
                  /\ out.elems = [k \in 1..Len(vs) |->
                                     [ty |-> Output(U, s), v |-> Apply(fn, vs[k].v)]]
                  /\ out.cap = NewCap(hist.cap, CellSize(U), TypeSize(Output(U, s)))
                  /\ out.cap > 0 => out.ptr = heap.addr

\* C12: when the vector goes out of scope, T's destructor has run exactly once
\* on each cell it held, as a T, and the allocation is released.
C12_DropDestroys ==
    pc = "dropped" =>
        /\ \A k \in 1..hist.len :
              /\ cells[k].ty = hist.tag
              /\ cells[k].dtor = 1
              /\ cells[k].fate = "dropped"
        /\ heap = NoBlock

\* C13: push and pop are a stack.  push adds one element at the end and leaves
\* the earlier ones as they were; pop on a vector that holds elements returns
\* the last one and leaves the others; pop on an empty vector returns None and
\* changes nothing.
C13_PushPopStack ==
    /\ hist.op = "push" =>
          /\ pc = "idle"
          /\ len = hist.len + 1
          /\ SubSeq(cells, 1, hist.len) = hist.vs
          /\ cells[len].ty = tag /\ cells[len].fate = "vec"
    /\ (hist.op = "pop" /\ hist.len > 0) =>
          /\ pc = "idle"
          /\ len = hist.len - 1
          /\ SubSeq(cells, 1, len) = SubSeq(hist.vs, 1, len)
          /\ hist.ret = hist.vs[hist.len]
          /\ cells[hist.len] = Take(hist.vs[hist.len], "caller")
    /\ (hist.op = "pop" /\ hist.len = 0) =>
          /\ pc = "idle"
          /\ len = 0
          /\ hist.ret = Uninit
          /\ cap = hist.cap

\* C14: for a value v of a type T of the universe, SelectHandle::from(v)
\* .into() gives v back, and a pop that follows a push gives back the value
\* pushed.
C14_RoundTrip ==
    /\ [](hist.op = "h_into" /\ Contains(U, hist.tag)
              /\ hist.vs[1] = NewVal(hist.tag, hist.vs[1].v)
            => pc = "consumed" /\ hist.ret.ty = hist.tag /\ hist.ret.v = hist.vs[1].v)
    /\ [][(pc = "idle" /\ hist.op = "push" /\ Contains(U, tag) /\ hist'.op = "pop")
            => (pc' = "idle" /\ hist'.ret = cells[len])]_vars

\* C15: into, into_inner, map and filter_map of a handle run no destructor on
\* the value the handle held: the value goes to exactly one party, the caller
\* or f, also when f fails or declines, and a handle that comes back holds a
\* fresh value.
C15_ConsumeOnce ==
    hist.op \in {"h_into", "h_into_inner", "h_map", "h_filter_map"} =>
        /\ hist.ret.dtor = hist.vs[1].dtor
        /\ hist.ret.fate = IF hist.op \in {"h_into", "h_into_inner"} THEN "caller" ELSE "f"
        /\ pc \in {"consumed", "panicked"} => cells[1] = hist.ret
        /\ pc = "handle" =>
              /\ hist.op \in {"h_map", "h_filter_map"}
              /\ cells[1].fate = "vec" /\ cells[1].dtor = 0 /\ cells[1].ty = tag

\* C15 witness: f failed on the live value a handle held; the value is f's
\* and no destructor has run on it.
C15_Witness ==
    /\ hist.op = "h_map"
    /\ pc = "panicked"
    /\ hist.vs[1].fate = "vec"
    /\ hist.ret.fate = "f"
    /\ hist.ret.dtor = 0

\* C16: SelectHandle::change_to::<S>() destroys the value the handle holds,
\* once, and returns a handle tagged with the selected type; write(x) leaves x
\* in the handle, and a read that follows the write (copy_current, into)
\* gives x.
C16_HandleChangeTo ==
    /\ [](hist.op = "h_change_to" =>
              /\ pc = "handle"
              /\ tag = Output(U, hist.sel)
              /\ cells[1] = Destroy(hist.vs[1])
              /\ hist.vs[1].dtor = 0 => cells[1].dtor = 1)
    /\ [](hist.op = "h_write" => pc = "handle" /\ cells[1] = hist.ret)
    /\ [][(pc = "handle" /\ hist.op = "h_write"
              /\ hist'.op \in {"h_copy_current", "h_into"})
            => hist'.ret.v = hist.ret.v]_vars

\* C17: SelectSlice::map never changes the length or capacity of the vector
\* it borrows from, and when f fails at cell k of the window then, once the
\* unwinding has torn the vector down, the value of cell k belongs to f
\* alone, no destructor has run twice on a cell, and every cell destroyed
\* held a value of the vector's type.
C17_SliceMapSafety ==
    /\ pc \in {"window", "slice_map"} => (len = hist.len /\ cap = hist.cap)
    /\ (pc = "panicked" /\ hist.op = "slice_map") =>
          /\ cells[i + 1].fate = "f"
          /\ \A k \in 1..hist.len :
                /\ cells[k].dtor <= 1
                /\ cells[k].fate = "dropped" => cells[k].ty = tag

\* C18: no operation of the vector fails when it runs unless it is a buffer
\* handoff or runs a closure of the caller: construction, push, pop and the
\* change of type never end in a panic, whatever type is requested, and the
\* type of the vector is always a type of its universe.
C18_OnlyAlignmentFails ==
    /\ Contains(U, tag)
    /\ pc = "panicked" =>
          hist.op \in {"map", "filter_map", "into_vec", "into_vec_map", "h_map",
                       "h_filter_map", "slice_map"}

\* The indices a Drain has yielded, in the order it yielded them.
YieldedIdx(d) == [k \in DOMAIN d.yielded |-> d.yielded[k].idx]

\* The loops of map and filter_map start at cell 0, advance by one cell with
\* every call of f, have not touched any cell they have not reached, and
\* return only when every occupied cell has been passed to f.
LoopOrder ==
    /\ [](pc \in {"map", "filter_map"} =>
            /\ i <= hist.len
            /\ \A k \in (i + 1)..hist.len : cells[k] = hist.vs[k])
    /\ [][(pc = "idle" /\ pc' \in {"map", "filter_map"}) => i' = 0]_vars
    /\ [][(pc \in {"map", "filter_map"} /\ pc' = pc) => i' = i + 1]_vars
    /\ [][(pc \in {"map", "filter_map"} /\ pc' = "idle") => i = hist.len]_vars

C20_DrainResult ==
    [][(pc = "drain" /\ pc' = "idle") =>
          /\ \A k \in DOMAIN drain.yielded :
                /\ drain.yielded[k].idx \in drain.start..(drain.tail_start - 1)
                /\ drain.yielded[k].ty = hist.vs[drain.yielded[k].idx + 1].ty
                /\ drain.yielded[k].v = hist.vs[drain.yielded[k].idx + 1].v
          /\ \A j, k \in DOMAIN drain.yielded :
                j # k => drain.yielded[j].idx # drain.yielded[k].idx
          /\ drain.front = drain.back =>
                {drain.yielded[k].idx : k \in DOMAIN drain.yielded}
                   = drain.start..(drain.tail_start - 1)
          /\ len' = hist.len - (drain.tail_start - drain.start)
          /\ cap' = hist.cap
          /\ SubSeq(cells', 1, len')
                = SubSeq(hist.vs, 1, drain.start)
                     \o SubSeq(hist.vs, drain.tail_start + 1, hist.len)
          /\ (drain.start = 0 /\ drain.tail_start = hist.len) => len' = 0]_vars

\* C20 witness: a drain of a range inside the vector has ended, with a cell
\* before the range and a cell after it.
C20_Witness ==
    /\ pc = "idle"
    /\ hist.op = "drain"
    /\ hist.drain.start >= 1
    /\ hist.drain.tail_start > hist.drain.start
    /\ hist.drain.tail_len >= 1
    /\ len = hist.len - (hist.drain.tail_start - hist.drain.start)

\* C21: an iterator made by iter() or into_iter() over a vector of length L
\* has yielded, from the front, the cells 0, 1, ... in that order and, from
\* the back, the cells L-1, L-2, ... in that order, each cell at most once
\* and each as the value the cell holds; it answers None only when every
\* cell has been yielded; and iter() leaves the vector as it was.
C21_Iteration ==
    /\ pc \in {"iter", "into_iter"} =>
          /\ iter.front <= iter.back
          /\ Len(iter.yielded) = iter.front + (hist.len - iter.back)
          /\ {iter.yielded[k].idx : k \in DOMAIN iter.yielded}
                = (0..(iter.front - 1)) \cup (iter.back..(hist.len - 1))
          /\ \A k \in DOMAIN iter.yielded :
                /\ iter.yielded[k].ty = hist.vs[iter.yielded[k].idx + 1].ty
                /\ iter.yielded[k].v = hist.vs[iter.yielded[k].idx + 1].v
          /\ \A j, k \in DOMAIN iter.yielded :
                j < k =>
                   /\ (iter.yielded[j].idx < iter.front /\ iter.yielded[k].idx < iter.front)
                         => iter.yielded[j].idx < iter.yielded[k].idx
                   /\ (iter.yielded[j].idx >= iter.back /\ iter.yielded[k].idx >= iter.back)
                         => iter.yielded[j].idx > iter.yielded[k].idx
          /\ iter.none => iter.front = iter.back
    /\ (pc = "iter" \/ (pc = "idle" /\ hist.op = "iter")) =>
          /\ len = hist.len
          /\ cap = hist.cap
          /\ tag = hist.tag
          /\ SubSeq(cells, 1, len) = hist.vs

\* C21 witness: a reverse traversal of three cells that has reached None.
C21_Witness ==
    /\ pc = "iter"
    /\ hist.len = 3
    /\ iter.back = 0
    /\ iter.front = 0
    /\ iter.none

\* C22: the box map returns dereferences to f(x) and sits in the block the
\* mapped box sat in, which was neither released nor replaced; the old value
\* went to f and to nobody else; and dropping a box runs the destructor of
\* its value exactly once and releases the block.
C22_BoxMap ==
    /\ (pc = "box" /\ hist.op = "box_map") =>
          /\ tag = Output(U, hist.sel)
          /\ cells[1] = NewVal(tag, Apply(hist.f, hist.vs[1].v))
          /\ ptr = hist.ptr
          /\ heap = [addr |-> hist.ptr, size |-> CellSize(U), align |-> CellAlign(U)]
          /\ hist.ret = Take(hist.vs[1], "f")
          /\ hist.vs[1].dtor = 0
    /\ (pc = "box" /\ hist.op = "box_deref") =>
          hist.ret = cells[1]
    /\ (pc = "dropped" /\ hist.op = "box_drop") =>
          /\ cells[1] = Destroy(hist.vs[1])
          /\ cells[1].dtor = 1
          /\ cells[1].ty = hist.tag
          /\ heap = NoBlock
    /\ "moved" \notin faults

\* C22 witness: a box mapped to another type has been dropped.
C22_Witness ==
    /\ pc = "dropped"
    /\ hist.op = "box_drop"
    /\ hist.vs[1].ty = "u64"
    /\ U = <<"str", "u64">>

\* C23: a handoff has reallocated the buffer exactly when the bytes of the old
\* buffer are no whole number of elements of the returned array: then the
\* block has the size of the new capacity, and otherwise it is the old block
\* at its old place.
C23_ReallocTest ==
    pc = "handed" =>
        LET bytes == hist.cap * CellSize(U)
        IN  IF bytes % TypeSize(out.ty) # 0
            THEN heap.size = out.cap * TypeSize(out.ty)
            ELSE heap.addr = hist.ptr /\ heap.size = bytes

\* C24: the array a handoff returns will release its buffer as out.cap
\* elements of its type, and that is the size and the alignment of the block
\* the allocator holds for the buffer.
C24_ReleaseLayout ==
    (pc = "handed" /\ out.cap > 0) =>
        /\ heap.size = out.cap * TypeSize(out.ty)
        /\ heap.align = TypeAlign(out.ty)

\* C25: when a handoff has reallocated the buffer, the array it returns
\* addresses the block the reallocation gave back, wherever that is.
C25_ReallocAddress ==
    (pc = "handed" /\ NeedsRealloc(kind, U, hist.tag, out.ty, hist.cap)) =>
        out.ptr = heap.addr

\* C26: while filter_map or a handoff rewrites the buffer in place, the write
\* position is not past the read position (i - nones <= i; element i ends at
\* or before the end of cell i), and every cell the loop has not read yet
\* still holds the value it held when the operation was called.
C26_WriteBehindRead ==
    /\ pc = "filter_map" =>
          /\ nones <= i
          /\ FilterWriteIndex(i, nones) <= i
          /\ \A k \in (i + 1)..hist.len : cells[k] = hist.vs[k]
    /\ pc = "handoff" =>
          /\ (i + 1) * TypeSize(out.ty) <= (i + 1) * CellSize(U)
          /\ \A k \in (i + 1)..hist.len : cells[k] = hist.vs[k]

\* C26 witness: a handoff to elements smaller than the cells, with cells
\* written and cells still to read.
C26_Witness ==
    /\ pc = "handoff"
    /\ i >= 1
    /\ i < hist.len
    /\ TypeSize(out.ty) < CellSize(U)

\* C27: a handoff that has passed the gate and finished its loop returns
\* the array: computing the new capacity fails for no element type of the
\* universe and for no capacity.
C27_HandoffCompletes ==
    [][(pc = "handoff" /\ i = savedLen) => pc' = "handed"]_vars

\* C28: once a window has been released, every cell in [0, len) of the
\* vector it was borrowed from holds a live value of the vector's type.
C28_OwnerCellsTyped ==
    (pc = "idle" /\ hist.op = "slice_release") =>
        \A k \in 1..len : cells[k].ty = tag /\ cells[k].fate = "vec"

C30_DropOnlyLiveValue ==
    [][(pc = "handle" /\ hist.op = "h_change_to" /\ hist'.op = "h_drop") =>
        /\ cells[1].ty = tag
        /\ cells[1].fate = "vec"]_vars

====
